---- MODULE Spec2Model ----
(***************************************************************************)
(* Fiscal retention engine of MapaApuracaoRetencoes (rules_engine.py) and   *)
(* the batch loop that drives it (main.py).                                *)
(*                                                                         *)
(* Conventions of the model                                                *)
(*  - A Python dict entry is a tagged value: Ausente (the key is not in    *)
(*    the dict), Nulo (None), Num(x), Txt(s), Bool(b).                     *)
(*  - A float is an integer count of thousandths (1.0 is 1000, the rate    *)
(*    0.05 is 50); Mul is the product of two such values.  Invoice totals  *)
(*    are whole currency units, so every product of the engine is exact.   *)
(*  - Texts that the engine upper-cases (municipalities, the retention     *)
(*    flag) are sequences of one-character strings; codes and              *)
(*    justifications are plain strings.                                    *)
(*  - The activity table always holds a row for the activity code that the *)
(*    placeholder resolver looks up (it is shipped with the application).  *)
(***************************************************************************)
EXTENDS Integers, Sequences, FiniteSets, TLC

VARIABLES rules, user_config, dados_nf, simples_status, resultado, pc,
          chamada_anterior, api,
          ref_estado, pdf_files, idx, local_nota, mapas_pdf, relatorio_final,
          simples_status_raw

\* State of the batch run of main(), beyond the names the engine call reads.
vars_lote == <<ref_estado, pdf_files, idx, local_nota, mapas_pdf, relatorio_final,
               simples_status_raw>>

vars == <<rules, user_config, dados_nf, simples_status, resultado, pc,
          chamada_anterior, api, vars_lote>>

----------------------------------------------------------------------------
(* Bounds *)

\* Largest invoice total, in whole currency units (the smallest is -1).
MaxValorTotal == 2

----------------------------------------------------------------------------
(* Python values *)

Ausente == <<"ausente">>
Nulo == <<"null">>
Num(x) == <<"num", x>>
Txt(s) == <<"str", s>>
Bool(b) == <<"bool", b>>

\* dict.get(key, default)
Get(v, default) == IF v = Ausente THEN default ELSE v

\* Truth value of a Python object (bool(x)) for the values the engine tests.
Truthy(v) ==
    CASE v = Ausente -> FALSE
      [] v = Nulo -> FALSE
      [] v[1] = "bool" -> v[2]
      [] v[1] = "num" -> v[2] # 0
      [] v[1] = "str" -> v[2] # <<>> /\ v[2] # ""

\* A whole number of currency units as a float (thousandths).
Float(n) == n * 1000

\* Product of two floats (thousandths).
Mul(a, b) == (a * b) \div 1000

\* str.upper() on the alphabet of the model.
UpperChar(c) ==
    CASE c = "s" -> "S"
      [] c = "p" -> "P"
      [] c = "r" -> "R"
      [] c = "j" -> "J"
      [] c = "i" -> "I"
      [] c = "m" -> "M"
      [] c = "n" -> "N"
      [] c = "a" -> "A"
      [] c = "o" -> "O"
      [] OTHER -> c

\* Upper without the conversion: the comparisons become case-sensitive.
Upper_Identidade(s) == s

\* str.upper()
Upper(s) == [i \in DOMAIN s |-> UpperChar(s[i])]

----------------------------------------------------------------------------
(* config.py *)

CODIGOS_SERVICO_EXCECAO_NAO_OPTANTE == {"7.11", "7.12", "3.01", "10.09"}

----------------------------------------------------------------------------
(* Consensus block (placeholders of rules_engine.py) *)

\* Activity code looked up by the placeholder resolver.
CNAE_PADRAO == 6204000

\* Default ISS rate, 5%.
ALIQUOTA_ISS_PADRAO == 50

\* INSS rate for a SIMEI provider and a taker holding CEBAS, 20%.
ALIQUOTA_INSS_SIMEI == 200

\* INSS rate for Annex IV activities of a Simples provider, 11%.
ALIQUOTA_INSS_ANEXO_IV == 110

\* IRRF rate for intermediation services, 1.5%.
ALIQUOTA_IRRF == 15

EscolherLc116ComConsenso(d, r) ==
    LET cod == Get(d.subitem_lc116, Txt("1.07"))
    IN  [codigo |-> cod,
         descricao |-> IF cod # Nulo /\ cod[2] \in DOMAIN r.lc116
                       THEN r.lc116[cod[2]]
                       ELSE "Serviço Padrão"]

\* rules['cnae'][rules['cnae']['cnae'] == 6204000].iloc[0]
CnaeRow(r) ==
    LET linhas == {i \in DOMAIN r.cnae : r.cnae[i].cnae = CNAE_PADRAO}
    IN  r.cnae[CHOOSE i \in linhas : \A j \in linhas : i <= j]

EscolherCnaeComConsenso(r) ==
    LET row == CnaeRow(r)
    IN  [codigo |-> "6204000",
         descricao |-> row.descricao,
         anexo |-> Get(row.anexo, Txt("V")),
         retencao |-> Get(row.retencao, Txt(<<"N", "A", "O">>)),
         art219 |-> Get(row.art219, Txt(""))]

EscolherReinfComConsenso ==
    [codigo |-> "01.01", descricao |-> "Serviços de Tecnologia"]

BuscarAliquotaIss == ALIQUOTA_ISS_PADRAO

----------------------------------------------------------------------------
(* Justification texts *)

\* f"{x:.2%}" for the rates the resolver can return.
FormatPercent2(x) ==
    CASE x = 50 -> "5.00%"
      [] x = 0 -> "0.00%"
      [] OTHER -> "?%"

J_ISS_SIMEI == "ISS não retido (fornecedor SIMEI)."
J_ISS_301 == "ISS não retido (serviço código 3.01 da LC 116)."
J_ISS_RETIDO(aliq) ==
    "ISS retido (" \o FormatPercent2(aliq)
        \o ") pelo tomador (mesmo município e substituto tributário)."
J_ISS_NAO_SUBSTITUTO == "ISS não retido (unidade não é substituto tributário)."
J_ISS_OUTRO_MUNICIPIO == "ISS não retido (devido no município do prestador)."
J_INSS_SIMEI_CEBAS == "INSS retido (20%) - Fornecedor SIMEI e tomador com CEBAS."
J_INSS_SIMEI_SEM_CEBAS == "INSS não retido (fornecedor SIMEI sem tomador com CEBAS)."
J_INSS_ANEXO_IV ==
    "INSS retido (11%) - Optante do Simples, Anexo IV e serviço sujeito à retenção."
J_INSS_FORA == "INSS não retido (Optante do Simples fora das regras de retenção)."
J_INSS_NAO_OPTANTE == "INSS não retido (Não Optante do Simples - regra geral)."
J_IRRF_1009 == "IRRF retido (1.5%) para serviços de intermediação (10.09)."

\* '11%' in s, for the justification texts of the engine.
Contem11Porcento(s) == s = J_INSS_ANEXO_IV

----------------------------------------------------------------------------
(* processar_regras_fiscais *)

\* Triagem with a missing regime flag read as "optante" (get default True).
Triagem_AusenteComoOptante(s, lc) ==
    /\ ~Truthy(Get(s.is_optante_simples, Bool(TRUE)))
    /\ ~(lc.codigo # Nulo /\ lc.codigo[2] \in CODIGOS_SERVICO_EXCECAO_NAO_OPTANTE)

\* Triagem with the two conditions joined by "or" instead of nested.
Triagem_Ou(s, lc) ==
    \/ ~Truthy(Get(s.is_optante_simples, Bool(FALSE)))
    \/ ~(lc.codigo # Nulo /\ lc.codigo[2] \in CODIGOS_SERVICO_EXCECAO_NAO_OPTANTE)

\* Step 2: TRUE when the invoice is sent to manual review.
Triagem(s, lc) ==
    /\ ~Truthy(Get(s.is_optante_simples, Bool(FALSE)))
    /\ ~(lc.codigo # Nulo /\ lc.codigo[2] \in CODIGOS_SERVICO_EXCECAO_NAO_OPTANTE)

\* float(dados_nf.get('valor_total', 0.0)); TypeError on None.
ValorTotalErro(d) == d.valor_total = Nulo

ValorTotal(d) ==
    LET v == Get(d.valor_total, Num(0))
    IN  IF v = Nulo THEN 0 ELSE v[2]

\* CalcISS with the SIMEI test left out.
CalcISS_SemSimei(d, s, u, lc, valor_total, aliquota_iss) ==
    IF lc.codigo = Txt("3.01")
    THEN [erro |-> "", valor |-> 0, just |-> J_ISS_301]
    ELSE IF d.municipio_prestador = Ausente
    THEN [erro |-> "KeyError", valor |-> 0, just |-> ""]
    ELSE IF d.municipio_prestador = Nulo
    THEN [erro |-> "AttributeError", valor |-> 0, just |-> ""]
    ELSE IF d.municipio_tomador = Ausente
    THEN [erro |-> "KeyError", valor |-> 0, just |-> ""]
    ELSE IF d.municipio_tomador = Nulo
    THEN [erro |-> "AttributeError", valor |-> 0, just |-> ""]
    ELSE IF Upper(d.municipio_prestador[2]) = Upper(d.municipio_tomador[2])
    THEN IF Truthy(u.substituto_tributario)
         THEN [erro |-> "", valor |-> Mul(valor_total, aliquota_iss),
               just |-> J_ISS_RETIDO(aliquota_iss)]
         ELSE [erro |-> "", valor |-> 0, just |-> J_ISS_NAO_SUBSTITUTO]
    ELSE [erro |-> "", valor |-> 0, just |-> J_ISS_OUTRO_MUNICIPIO]

\* Step 3.1: [erro, valor, just]; erro names the exception raised, "" if none.
CalcISS(d, s, u, lc, valor_total, aliquota_iss) ==
    IF Truthy(Get(s.is_simei, Bool(FALSE)))
    THEN [erro |-> "", valor |-> 0, just |-> J_ISS_SIMEI]
    ELSE IF lc.codigo = Txt("3.01")
    THEN [erro |-> "", valor |-> 0, just |-> J_ISS_301]
    ELSE IF d.municipio_prestador = Ausente
    THEN [erro |-> "KeyError", valor |-> 0, just |-> ""]
    ELSE IF d.municipio_prestador = Nulo
    THEN [erro |-> "AttributeError", valor |-> 0, just |-> ""]
    ELSE IF d.municipio_tomador = Ausente
    THEN [erro |-> "KeyError", valor |-> 0, just |-> ""]
    ELSE IF d.municipio_tomador = Nulo
    THEN [erro |-> "AttributeError", valor |-> 0, just |-> ""]
    ELSE IF Upper(d.municipio_prestador[2]) = Upper(d.municipio_tomador[2])
    THEN IF Truthy(u.substituto_tributario)
         THEN [erro |-> "", valor |-> Mul(valor_total, aliquota_iss),
               just |-> J_ISS_RETIDO(aliquota_iss)]
         ELSE [erro |-> "", valor |-> 0, just |-> J_ISS_NAO_SUBSTITUTO]
    ELSE [erro |-> "", valor |-> 0, just |-> J_ISS_OUTRO_MUNICIPIO]

\* CalcINSS with the regime tests in the other order (optante before SIMEI).
CalcINSS_OptantePrimeiro(s, u, cnae, valor_total) ==
    IF Truthy(Get(s.is_optante_simples, Bool(FALSE)))
    THEN IF cnae.anexo = Txt("IV")
            /\ Upper(cnae.retencao[2]) = <<"S", "I", "M">>
         THEN [valor |-> Mul(valor_total, ALIQUOTA_INSS_ANEXO_IV),
               just |-> J_INSS_ANEXO_IV]
         ELSE [valor |-> 0, just |-> J_INSS_FORA]
    ELSE IF Truthy(Get(s.is_simei, Bool(FALSE)))
    THEN IF Truthy(u.possui_cebas)
         THEN [valor |-> Mul(valor_total, ALIQUOTA_INSS_SIMEI),
               just |-> J_INSS_SIMEI_CEBAS]
         ELSE [valor |-> 0, just |-> J_INSS_SIMEI_SEM_CEBAS]
    ELSE [valor |-> 0, just |-> J_INSS_NAO_OPTANTE]

\* CalcINSS with the Annex IV rule ignoring the retention flag.
CalcINSS_SemFlagRetencao(s, u, cnae, valor_total) ==
    IF Truthy(Get(s.is_simei, Bool(FALSE)))
    THEN IF Truthy(u.possui_cebas)
         THEN [valor |-> Mul(valor_total, ALIQUOTA_INSS_SIMEI),
               just |-> J_INSS_SIMEI_CEBAS]
         ELSE [valor |-> 0, just |-> J_INSS_SIMEI_SEM_CEBAS]
    ELSE IF Truthy(Get(s.is_optante_simples, Bool(FALSE)))
    THEN IF cnae.anexo = Txt("IV")
         THEN [valor |-> Mul(valor_total, ALIQUOTA_INSS_ANEXO_IV),
               just |-> J_INSS_ANEXO_IV]
         ELSE [valor |-> 0, just |-> J_INSS_FORA]
    ELSE [valor |-> 0, just |-> J_INSS_NAO_OPTANTE]

\* Step 3.2: [valor, just]
CalcINSS(s, u, cnae, valor_total) ==
    IF Truthy(Get(s.is_simei, Bool(FALSE)))
    THEN IF Truthy(u.possui_cebas)
         THEN [valor |-> Mul(valor_total, ALIQUOTA_INSS_SIMEI),
               just |-> J_INSS_SIMEI_CEBAS]
         ELSE [valor |-> 0, just |-> J_INSS_SIMEI_SEM_CEBAS]
    ELSE IF Truthy(Get(s.is_optante_simples, Bool(FALSE)))
    THEN IF cnae.anexo = Txt("IV")
            /\ Upper(cnae.retencao[2]) = <<"S", "I", "M">>
         THEN [valor |-> Mul(valor_total, ALIQUOTA_INSS_ANEXO_IV),
               just |-> J_INSS_ANEXO_IV]
         ELSE [valor |-> 0, just |-> J_INSS_FORA]
    ELSE [valor |-> 0, just |-> J_INSS_NAO_OPTANTE]

\* CalcIRRF applied to every code of the exception list.
CalcIRRF_TodaExcecao(lc, valor_total) ==
    IF lc.codigo # Nulo /\ lc.codigo[2] \in CODIGOS_SERVICO_EXCECAO_NAO_OPTANTE
    THEN [valor |-> Mul(valor_total, ALIQUOTA_IRRF), just |-> <<J_IRRF_1009>>]
    ELSE [valor |-> 0, just |-> <<>>]

\* Step 3.3: [valor, just]; just is the sequence of texts appended (0 or 1).
CalcIRRF(lc, valor_total) ==
    IF lc.codigo = Txt("10.09")
    THEN [valor |-> Mul(valor_total, ALIQUOTA_IRRF), just |-> <<J_IRRF_1009>>]
    ELSE [valor |-> 0, just |-> <<>>]

\* retencoes['csrf'], never assigned after its initialisation.
CalcCSRF == 0

\* CsrfDoMapa with a rate left in the placeholder.
CsrfDoMapa_ComAliquota == [aliquota |-> 46, valor |-> 0]

\* 'valor_csrf_retido' and 'aliquota_csrf' of the assembled record.
CsrfDoMapa == [aliquota |-> 0, valor |-> 0]

\* 'aliquota_inss' of the assembled record.
AliquotaInssDoMapa(inss, justificativas) ==
    IF inss > 0 /\ Contem11Porcento(justificativas[Len(justificativas)])
    THEN ALIQUOTA_INSS_ANEXO_IV
    ELSE IF inss > 0 THEN ALIQUOTA_INSS_SIMEI ELSE 0

\* Step 4: {**dados_nf, ...}; the keys listed after dados_nf win.
MontarMapa(d, s, u, lc, cnae, reinf, aliquota_iss, valor_total, ret, justificativas) ==
    LET total_retencoes == ret.iss + ret.inss + ret.irrf + ret.csrf
    IN  [valor_total |-> d.valor_total,
         subitem_lc116 |-> d.subitem_lc116,
         municipio_prestador |-> d.municipio_prestador,
         municipio_tomador |-> d.municipio_tomador,
         unidade |-> u.nome_unidade,
         optante_simples_str |->
             IF Truthy(Get(s.is_optante_simples, Nulo)) THEN "SIM" ELSE "NÃO",
         cod_servico_lc116 |-> lc.codigo,
         desc_lc116 |-> lc.descricao,
         cnae_codigo |-> cnae.codigo,
         cnae_descricao |-> cnae.descricao,
         cnae_anexo |-> cnae.anexo,
         cnae_art_219 |-> cnae.art219,
         codigo_reinf |-> reinf.codigo,
         descricao_reinf |-> reinf.descricao,
         aliquota_iss |-> aliquota_iss,
         valor_iss_retido |-> ret.iss,
         aliquota_inss |-> AliquotaInssDoMapa(ret.inss, justificativas),
         valor_inss_retido |-> ret.inss,
         aliquota_irrf |-> IF ret.irrf > 0 THEN ALIQUOTA_IRRF ELSE 0,
         valor_irrf_retido |-> ret.irrf,
         aliquota_csrf |-> CsrfDoMapa.aliquota,
         valor_csrf_retido |-> CsrfDoMapa.valor,
         valor_total_retencoes |-> total_retencoes,
         valor_liquido |-> valor_total - total_retencoes,
         observacoes_legais |-> justificativas]

\* An earlier call of the engine that an observer remembers (none yet).
SemChamada == <<>>

\* justificativas as the list would be if it outlived the call.
JustificativasIniciais_Acumuladas ==
    IF chamada_anterior # SemChamada /\ chamada_anterior.resultado.tipo = "mapa"
    THEN chamada_anterior.resultado.mapa.observacoes_legais
    ELSE <<>>

\* retencoes = {} ; justificativas = [] : fresh objects in every call.
JustificativasIniciais == <<>>

SemMapa == <<>>
RetNone == [tipo |-> "None", erro |-> "", mapa |-> SemMapa]
Excecao(e) == [tipo |-> "excecao", erro |-> e, mapa |-> SemMapa]
RetMapa(m) == [tipo |-> "mapa", erro |-> "", mapa |-> m]

ProcessarRegrasFiscais(d, s, u, r) ==
    LET lc116_final == EscolherLc116ComConsenso(d, r)
        cnae_final == EscolherCnaeComConsenso(r)
        reinf_final == EscolherReinfComConsenso
        aliquota_iss == BuscarAliquotaIss
    IN  IF Triagem(s, lc116_final) THEN RetNone
        ELSE IF ValorTotalErro(d) THEN Excecao("TypeError")
        ELSE
          LET valor_total == ValorTotal(d)
              iss == CalcISS(d, s, u, lc116_final, valor_total, aliquota_iss)
              inss == CalcINSS(s, u, cnae_final, valor_total)
              irrf == CalcIRRF(lc116_final, valor_total)
              ret == [iss |-> iss.valor, inss |-> inss.valor,
                      irrf |-> irrf.valor, csrf |-> CalcCSRF]
              justificativas ==
                  JustificativasIniciais \o <<iss.just, inss.just>> \o irrf.just
          IN  IF iss.erro # "" THEN Excecao(iss.erro)
              ELSE RetMapa(MontarMapa(d, s, u, lc116_final, cnae_final, reinf_final,
                                      aliquota_iss, valor_total, ret, justificativas))

----------------------------------------------------------------------------
(* Inputs *)

\* "SP", "sp", "RJ" and "SP " (trailing blank).
Municipios == {<<"S", "P">>, <<"s", "p">>, <<"R", "J">>, <<"S", "P", " ">>}

ValoresMunicipio == {Ausente, Nulo} \cup {Txt(m) : m \in Municipios}

ValoresTotal == {Ausente, Nulo} \cup {Num(Float(n)) : n \in (-1)..MaxValorTotal}

Subitens == {"1.07", "3.01", "7.11", "7.12", "10.09", "99.99"}

ValoresSubitem == {Ausente, Nulo} \cup {Txt(c) : c \in Subitens}

DadosNf ==
    [valor_total : ValoresTotal,
     subitem_lc116 : ValoresSubitem,
     municipio_prestador : ValoresMunicipio,
     municipio_tomador : ValoresMunicipio]

ValoresFlag == {Ausente, Bool(TRUE), Bool(FALSE)}

SimplesStatus == [is_optante_simples : ValoresFlag, is_simei : ValoresFlag]

UserConfigs ==
    [nome_unidade : {"TESTE"},
     substituto_tributario : {Bool(TRUE), Bool(FALSE)},
     possui_cebas : {Bool(TRUE), Bool(FALSE)}]

Lc116Map ==
    [c \in {"1.07", "3.01", "7.11", "7.12", "10.09"} |->
        CASE c = "1.07" -> "Suporte Técnico"
          [] c = "3.01" -> "Cessão de Mão de Obra"
          [] c = "7.11" -> "Decoração e jardinagem"
          [] c = "7.12" -> "Controle e tratamento de efluentes"
          [] c = "10.09" -> "Representação comercial"]

Anexos == {Ausente, Txt("IV"), Txt("V")}

Retencoes == {Txt(<<"S", "I", "M">>), Txt(<<"s", "i", "m">>), Txt(<<"N", "A", "O">>)}

CnaeTable(anexo, retencao) ==
    << [cnae |-> 6201501, descricao |-> "Desenvolvimento de software",
        anexo |-> Txt("IV"), retencao |-> Txt(<<"S", "I", "M">>),
        art219 |-> Txt("Art. 219...")],
       [cnae |-> 6204000, descricao |-> "Consultoria em TI",
        anexo |-> anexo, retencao |-> retencao, art219 |-> Txt("")] >>

RulesSet ==
    {[cnae |-> CnaeTable(a, t), lc116 |-> Lc116Map] : a \in Anexos, t \in Retencoes}

----------------------------------------------------------------------------
(* State machine: a caller hands invoices to the engine, one at a time *)

SemNota == [valor_total |-> Ausente, subitem_lc116 |-> Ausente,
            municipio_prestador |-> Ausente, municipio_tomador |-> Ausente]
SemStatus == [is_optante_simples |-> Ausente, is_simei |-> Ausente]
SemResultado == [tipo |-> "nenhum", erro |-> "", mapa |-> SemMapa]
SemRaw == <<>>

\* No call of _call_openai_api is under way.
ApiParada == <<>>

\* No batch is running: nothing read, listed, moved, rendered or reported.
LoteParado ==
    /\ ref_estado = <<>>
    /\ pdf_files = <<>>
    /\ idx = 0
    /\ local_nota = <<>>
    /\ mapas_pdf = <<>>
    /\ relatorio_final = <<>>
    /\ simples_status_raw = SemRaw

Init ==
    /\ rules \in RulesSet
    /\ user_config \in UserConfigs
    /\ dados_nf = SemNota
    /\ simples_status = SemStatus
    /\ resultado = SemResultado
    /\ pc = "aguardando"
    /\ chamada_anterior = SemChamada
    /\ api = ApiParada
    /\ LoteParado

\* The extractor and the regime classifier deliver the inputs of one invoice.
ReceberNota ==
    /\ pc = "aguardando"
    /\ dados_nf' \in DadosNf
    /\ simples_status' \in SimplesStatus
    /\ resultado' = SemResultado
    /\ pc' = "pronta"
    /\ UNCHANGED <<rules, user_config, chamada_anterior, api, vars_lote>>

\* A call that stores the total it parsed back into the invoice fields.
Processar_EscreveNaNota ==
    /\ pc = "pronta"
    /\ resultado' = ProcessarRegrasFiscais(dados_nf, simples_status, user_config, rules)
    /\ dados_nf' = IF resultado'.tipo = "mapa"
                   THEN [dados_nf EXCEPT !.valor_total = Num(ValorTotal(dados_nf))]
                   ELSE dados_nf
    /\ pc' = "processada"
    /\ UNCHANGED <<rules, user_config, simples_status, chamada_anterior, api, vars_lote>>

\* One call of processar_regras_fiscais.
Processar ==
    /\ pc = "pronta"
    /\ resultado' = ProcessarRegrasFiscais(dados_nf, simples_status, user_config, rules)
    /\ pc' = "processada"
    /\ UNCHANGED <<rules, user_config, dados_nf, simples_status,
                   chamada_anterior, api, vars_lote>>

\* The caller consumes the outcome; nothing of the invoice is kept.
Descartar ==
    /\ pc = "processada"
    /\ dados_nf' = SemNota
    /\ simples_status' = SemStatus
    /\ resultado' = SemResultado
    /\ pc' = "aguardando"
    /\ UNCHANGED <<rules, user_config, chamada_anterior, api, vars_lote>>

Next == ReceberNota \/ Processar \/ Descartar

Spec == Init /\ [][Next]_vars

----------------------------------------------------------------------------
(* State machine: repeated calls of the engine, with one earlier call      *)
(* remembered                                                              *)

\* Invoices and regime statuses that come back several times.
NotasChamadas ==
    {[valor_total |-> Num(Float(1)), subitem_lc116 |-> c,
      municipio_prestador |-> Txt(<<"S", "P">>), municipio_tomador |-> m] :
        c \in {Ausente, Txt("10.09")}, m \in {Txt(<<"s", "p">>), Nulo}}

StatusChamadas ==
    {[is_optante_simples |-> Bool(o), is_simei |-> Bool(FALSE)] : o \in BOOLEAN}

InitChamadas == Init

ReceberNotaChamadas ==
    /\ pc = "aguardando"
    /\ dados_nf' \in NotasChamadas
    /\ simples_status' \in StatusChamadas
    /\ resultado' = SemResultado
    /\ pc' = "pronta"
    /\ UNCHANGED <<rules, user_config, chamada_anterior, api, vars_lote>>

\* The caller consumes the outcome; an observer may note the call down,
\* inputs and outcome, in place of the call it remembered.
DescartarChamada ==
    /\ pc = "processada"
    /\ \E lembrar \in BOOLEAN :
          chamada_anterior' =
              IF lembrar
              THEN [dados_nf |-> dados_nf, simples_status |-> simples_status,
                    resultado |-> resultado]
              ELSE chamada_anterior
    /\ dados_nf' = SemNota
    /\ simples_status' = SemStatus
    /\ resultado' = SemResultado
    /\ pc' = "aguardando"
    /\ UNCHANGED <<rules, user_config, api, vars_lote>>

NextChamadas == ReceberNotaChamadas \/ Processar \/ DescartarChamada

SpecChamadas == InitChamadas /\ [][NextChamadas]_vars

----------------------------------------------------------------------------
(* State machine: the batch run of main()                                  *)

\* Largest number of PDF files in the source folder.
MaxArquivos == 2

\* A reference file is in place and readable, is missing and not supplied by
\* the operator, or is in place but cannot be read.
EstadosRef == {"ok", "ausente", "ilegivel"}

NomesRef == {"cnae", "reinf", "lc116"}

ArquivosRef == [cnae : EstadosRef, reinf : EstadosRef, lc116 : EstadosRef]

\* ensure_asset_exists: the path of the asset, or None.
EnsureAssetExists(estado) == IF estado = "ausente" THEN Nulo ELSE Txt("path")

\* load_all_rules returned None; also the value of rules before the call.
RegrasNone == <<>>

\* A loader that swallows the failure and hands back a rules object.
LoadAllRules_IgnoraFalha(estado, conteudo) == conteudo

\* The three reads are made in this order inside one try; FileNotFoundError
\* and every other exception end in "return None".
LoadAllRules(estado, conteudo) ==
    IF estado.cnae # "ok" THEN RegrasNone
    ELSE IF estado.reinf # "ok" THEN RegrasNone
    ELSE IF estado.lc116 # "ok" THEN RegrasNone
    ELSE conteudo

\* Contents of the reference files of a batch.
RegrasLote ==
    {[cnae |-> CnaeTable(Txt("IV"), Txt(<<"S", "I", "M">>)), lc116 |-> Lc116Map]}

\* ask_initial_questions returned None, or was not asked yet.
SemConfig == <<>>

UserConfigsLote ==
    [nome_unidade : {"TESTE"},
     substituto_tributario : {Bool(TRUE), Bool(FALSE)},
     possui_cebas : {Bool(TRUE)},
     preencher_chamado : {Bool(TRUE), Bool(FALSE)}]

\* File names of the source folder; a file is known by its position in
\* pdf_files.
NomesArquivo == {"NF.pdf", "Mapa_NF.pdf"}

\* "mapa" in filename.lower()
ContemMapa(filename) == filename = "Mapa_NF.pdf"

ListasDeArquivos == UNION {[1..n -> NomesArquivo] : n \in 0..MaxArquivos}

\* A model answer that json.loads decodes to the object v.
Json(v) == <<"json", v>>

NotaCompleta ==
    [valor_total |-> Num(Float(1)), subitem_lc116 |-> Ausente,
     municipio_prestador |-> Txt(<<"S", "P">>),
     municipio_tomador |-> Txt(<<"s", "p">>),
     cnpj_prestador |-> Txt("12345678000199"),
     data_emissao |-> Txt("01/02/2024"),
     nome_fornecedor |-> Txt("ACME")]

\* Invoices as the extractor delivers them: complete; without total, code of
\* the exception set; null taker municipality; null CNPJ; without emission
\* date; without supplier name.
NotasLote ==
    {NotaCompleta,
     [NotaCompleta EXCEPT !.subitem_lc116 = Txt("7.11"), !.valor_total = Ausente],
     [NotaCompleta EXCEPT !.subitem_lc116 = Txt("10.09"), !.municipio_tomador = Nulo],
     [NotaCompleta EXCEPT !.cnpj_prestador = Nulo],
     [NotaCompleta EXCEPT !.data_emissao = Ausente],
     [NotaCompleta EXCEPT !.subitem_lc116 = Txt("7.12"), !.nome_fornecedor = Ausente]}

\* Answers of the model to the extraction prompt: none, text that is not
\* JSON, or a JSON object.
RespostasExtracao == {Nulo, Txt("?")} \cup {Json(n) : n \in NotasLote}

\* ai_extract_invoice_data: the decoded object, or None.
ExtracaoNone == <<>>

AiExtractInvoiceData(result_str) ==
    IF result_str[1] = "json" THEN result_str[2] ELSE ExtracaoNone

\* not dados_nf.get('cnpj_prestador')
SemCnpj(nf) == nf.cnpj_prestador \in {Ausente, Nulo, Txt("")}

RespostasOptante ==
    {Ausente, Txt("optante"), Txt("nao_optante"), Txt("nao_identificado")}

RespostasSimei ==
    {Ausente, Txt("simei"), Txt("nao_simei"), Txt("nao_identificado")}

\* Answers of the model to the regime prompt: none, text that is not JSON, a
\* JSON value that is not an object, or a JSON object.
RespostasSimples ==
    {Nulo, Txt("?"), <<"lista">>}
    \cup {Json([optante_simples |-> o, status_simei |-> m]) :
            o \in RespostasOptante, m \in RespostasSimei}

RawNaoIdentificado ==
    [optante_simples |-> Txt("nao_identificado"),
     status_simei |-> Txt("nao_identificado")]

\* ai_analyze_simples_status: the decoded answer, or the "not identified"
\* record when there is no answer or it is not JSON.  The consultation text
\* (or None) of consultar_simples_via_automacao only feeds the prompt.
AiAnalyzeSimplesStatus(result_str) ==
    IF result_str \in {Nulo, Txt("?")} THEN Json(RawNaoIdentificado) ELSE result_str

\* A classifier reading that takes every answer but the explicit negative
\* as positive.
StatusDoSimples_NaoNegado(raw) ==
    [is_optante_simples |-> Bool(raw.optante_simples # Txt("nao_optante")),
     is_simei |-> Bool(raw.status_simei # Txt("nao_simei"))]

\* simples_status of main: raw.get(key) == 'optante' / 'simei'
StatusDoSimples(raw) ==
    [is_optante_simples |-> Bool(Get(raw.optante_simples, Nulo) = Txt("optante")),
     is_simei |-> Bool(Get(raw.status_simei, Nulo) = Txt("simei"))]

\* Names bound anew for every file of the loop.
vars_nota == <<dados_nf, simples_status, simples_status_raw, resultado>>

\* What the batch leaves behind: where each file is, the MAPA PDF of each
\* file, the report list.
vars_saida == <<local_nota, mapas_pdf, relatorio_final>>

\* Fixed once the loop runs.
vars_config == <<rules, user_config, ref_estado, pdf_files, chamada_anterior, api>>

InitLote ==
    /\ rules = RegrasNone
    /\ user_config = SemConfig
    /\ dados_nf = SemNota
    /\ simples_status = SemStatus
    /\ resultado = SemResultado
    /\ pc = "inicio"
    /\ chamada_anterior = SemChamada
    /\ api = ApiParada
    /\ ref_estado \in ArquivosRef
    /\ pdf_files = <<>>
    /\ idx = 0
    /\ local_nota = <<>>
    /\ mapas_pdf = <<>>
    /\ relatorio_final = <<>>
    /\ simples_status_raw = SemRaw

\* 1. Initial system checks: network path and API key, sys.exit(1) otherwise.
VerificarSistema ==
    /\ pc = "inicio"
    /\ \E rede_ok \in BOOLEAN, chave_ok \in BOOLEAN :
          pc' = IF rede_ok /\ chave_ok THEN "assets" ELSE "abortado_sistema"
    /\ UNCHANGED <<vars_config, vars_nota, vars_saida, idx>>

\* 2. Asset validation: sys.exit(1) unless all three paths are there.
ValidarAssets ==
    /\ pc = "assets"
    /\ LET paths == {EnsureAssetExists(ref_estado[f]) : f \in NomesRef}
       IN  pc' = IF Nulo \in paths THEN "abortado_assets" ELSE "carregar"
    /\ UNCHANGED <<vars_config, vars_nota, vars_saida, idx>>

\* rules = load_all_rules(...); if not rules: sys.exit(1)
CarregarRegras ==
    /\ pc = "carregar"
    /\ \E conteudo \in RegrasLote :
          LET r == LoadAllRules(ref_estado, conteudo)
          IN  /\ rules' = r
              /\ pc' = IF r = RegrasNone THEN "abortado_regras" ELSE "pasta"
    /\ UNCHANGED <<user_config, ref_estado, pdf_files, chamada_anterior, api,
                   vars_nota, vars_saida, idx>>

\* 3. User input and the listing of the source folder; main returns when no
\* folder is chosen, the questions are cancelled or no PDF is found.
PrepararLote ==
    /\ pc = "pasta"
    /\ \/ /\ pc' = "encerrado"
          /\ UNCHANGED <<user_config, pdf_files, idx, vars_saida>>
       \/ \E cfg \in UserConfigsLote, arquivos \in ListasDeArquivos :
             /\ user_config' = cfg
             /\ pdf_files' = arquivos
             /\ relatorio_final' = <<>>
             /\ local_nota' = [i \in 1..Len(arquivos) |-> "origem"]
             /\ mapas_pdf' = [i \in 1..Len(arquivos) |-> "nenhum"]
             /\ IF arquivos = <<>>
                THEN pc' = "encerrado" /\ idx' = idx
                ELSE pc' = "laco" /\ idx' = 1
    /\ UNCHANGED <<rules, ref_estado, chamada_anterior, api, vars_nota>>

\* Head of the for loop: the loop ends, skips a file whose name holds
\* "mapa", or enters the try block for the file.
ProximoArquivo ==
    /\ pc = "laco"
    /\ IF idx > Len(pdf_files) THEN pc' = "finalizacao" /\ idx' = idx
       ELSE IF ContemMapa(pdf_files[idx]) THEN pc' = "laco" /\ idx' = idx + 1
       ELSE pc' = "texto" /\ idx' = idx
    /\ dados_nf' = SemNota
    /\ simples_status' = SemStatus
    /\ simples_status_raw' = SemRaw
    /\ resultado' = SemResultado
    /\ UNCHANGED <<vars_config, vars_saida>>

\* texto_nota = extrair_texto_inteligente(...); ValueError when it is empty.
ExtrairTexto ==
    /\ pc = "texto"
    /\ \E texto_ok \in BOOLEAN : pc' = IF texto_ok THEN "dados" ELSE "falha"
    /\ UNCHANGED <<vars_config, vars_nota, vars_saida, idx>>

\* dados_nf = ai_extract_invoice_data(...); ValueError when it is None or has
\* no provider CNPJ (dados_nf is not read again in that case).
ExtrairDados ==
    /\ pc = "dados"
    /\ \E resposta \in RespostasExtracao :
          LET nf == AiExtractInvoiceData(resposta)
          IN  IF nf = ExtracaoNone \/ SemCnpj(nf)
              THEN pc' = "falha" /\ dados_nf' = dados_nf
              ELSE pc' = "simples" /\ dados_nf' = nf
    /\ UNCHANGED <<vars_config, simples_status, simples_status_raw, resultado,
                   vars_saida, idx>>

\* Regime lookup and classification; KeyError when the invoice has no
\* 'data_emissao' key, AttributeError when the answer is not an object.
ConsultarSimples ==
    /\ pc = "simples"
    /\ IF dados_nf.data_emissao = Ausente
       THEN pc' = "falha" /\ UNCHANGED <<simples_status, simples_status_raw>>
       ELSE \E resposta \in RespostasSimples :
               LET raw == AiAnalyzeSimplesStatus(resposta)
               IN  /\ simples_status_raw' = raw
                   /\ IF raw[1] = "json"
                      THEN simples_status' = StatusDoSimples(raw[2]) /\ pc' = "motor"
                      ELSE simples_status' = simples_status /\ pc' = "falha"
    /\ UNCHANGED <<vars_config, dados_nf, resultado, vars_saida, idx>>

\* The engine call whose None answer is taken for a record.
Motor_IgnoraNone ==
    /\ pc = "motor"
    /\ LET res == ProcessarRegrasFiscais(dados_nf, simples_status, user_config, rules)
       IN  /\ resultado' = res
           /\ pc' = IF res.tipo = "excecao" THEN "falha" ELSE "completar"
    /\ UNCHANGED <<vars_config, dados_nf, simples_status, simples_status_raw,
                   vars_saida, idx>>

\* mapa_data = processar_regras_fiscais(...); the engine raises, or returns
\* None and main raises ValueError, or returns the record.
Motor ==
    /\ pc = "motor"
    /\ LET res == ProcessarRegrasFiscais(dados_nf, simples_status, user_config, rules)
       IN  /\ resultado' = res
           /\ pc' = IF res.tipo = "mapa" THEN "completar" ELSE "falha"
    /\ UNCHANGED <<vars_config, dados_nf, simples_status, simples_status_raw,
                   vars_saida, idx>>

\* Final details of mapa_data: KeyError when the invoice has no
\* 'nome_fornecedor' key; with preencher_chamado, re.search raises NameError
\* (main does not import re).
CompletarMapa ==
    /\ pc = "completar"
    /\ pc' = IF dados_nf.nome_fornecedor = Ausente THEN "falha"
             ELSE IF Truthy(Get(user_config.preencher_chamado, Nulo)) THEN "falha"
             ELSE "pdf"
    /\ UNCHANGED <<vars_config, vars_nota, vars_saida, idx>>

\* gerar_mapa_pdf: on a rendering failure its handler raises NameError
\* (mapa_generator does not import os) and the output file, if one was
\* written, stays.
GerarPdf ==
    /\ pc = "pdf"
    /\ \E desfecho \in {"gerado", "nenhum", "corrompido"} :
          /\ mapas_pdf' = [mapas_pdf EXCEPT ![idx] = desfecho]
          /\ pc' = IF desfecho = "gerado" THEN "mover" ELSE "falha"
    /\ UNCHANGED <<vars_config, vars_nota, local_nota, relatorio_final, idx>>

\* os.rename to the generated-notes folder, then relatorio_final.append.
\* The entry is tagged with the position of the file.
MoverNota ==
    /\ pc = "mover"
    /\ \E rename_ok \in BOOLEAN :
          IF rename_ok
          THEN /\ local_nota' = [local_nota EXCEPT ![idx] = "notas_geradas"]
               /\ relatorio_final' =
                      Append(relatorio_final, [arquivo |-> idx, mapa |-> resultado.mapa])
               /\ idx' = idx + 1
               /\ pc' = "laco"
          ELSE /\ pc' = "falha"
               /\ UNCHANGED <<local_nota, relatorio_final, idx>>
    /\ UNCHANGED <<vars_config, vars_nota, mapas_pdf>>

\* A handler that lets the exception end the loop.
TratarFalha_Aborta ==
    /\ pc = "falha"
    /\ pc' = "erro_fatal"
    /\ UNCHANGED <<vars_config, vars_nota, vars_saida, idx>>

\* A handler that files the invoice with the generated notes.
TratarFalha_MoveParaGeradas ==
    /\ pc = "falha"
    /\ local_nota' = [local_nota EXCEPT ![idx] = "notas_geradas"]
    /\ idx' = idx + 1
    /\ pc' = "laco"
    /\ UNCHANGED <<vars_config, vars_nota, mapas_pdf, relatorio_final>>

\* except Exception: os.rename to the manual-review folder; when that rename
\* raises too, the error is printed and the file stays where it is.
TratarFalha ==
    /\ pc = "falha"
    /\ \E rename_ok \in BOOLEAN :
          local_nota' = IF rename_ok
                        THEN [local_nota EXCEPT ![idx] = "manual"]
                        ELSE local_nota
    /\ idx' = idx + 1
    /\ pc' = "laco"
    /\ UNCHANGED <<vars_config, vars_nota, mapas_pdf, relatorio_final>>

\* item['valor_total'] of the summary raises KeyError for a record built
\* from an invoice without that key.
ResumoFalha ==
    \E i \in DOMAIN relatorio_final : relatorio_final[i].mapa.valor_total = Ausente

\* 5. Finalization: the summary of relatorio_final and the closing dialog.
Finalizar ==
    /\ pc = "finalizacao"
    /\ pc' = IF ResumoFalha THEN "erro_fatal" ELSE "concluido"
    /\ UNCHANGED <<vars_config, vars_nota, vars_saida, idx>>

NextLote ==
    \/ VerificarSistema
    \/ ValidarAssets
    \/ CarregarRegras
    \/ PrepararLote
    \/ ProximoArquivo
    \/ ExtrairTexto
    \/ ExtrairDados
    \/ ConsultarSimples
    \/ Motor
    \/ CompletarMapa
    \/ GerarPdf
    \/ MoverNota
    \/ TratarFalha
    \/ Finalizar

SpecLote == InitLote /\ [][NextLote]_vars

----------------------------------------------------------------------------
(* State machine: one call of _call_openai_api                             *)

\* Largest max_retries of a call (the default of the function is 3).
MaxRetries == 3

\* What one API attempt can end in: a response with text; a response that
\* has no text (content is None or choices is empty, so the return
\* statement raises inside the try); a connection error; a rate-limit
\* error; any other exception.
DesfechosApi == {"ok", "sem_conteudo", "conexao", "limite", "outro"}

\* The function has not returned yet.
SemRetorno == <<"pendente">>

\* response.choices[0].message.content.strip()
ConteudoDaResposta == Txt("resposta")

\* Everything but the call of _call_openai_api.
vars_fora_da_api ==
    <<rules, user_config, dados_nf, simples_status, resultado, chamada_anterior,
      vars_lote>>

InitApi ==
    /\ api \in [client : BOOLEAN, max_retries : 0..MaxRetries, attempt : {0},
                respostas : {<<>>}, retorno : {SemRetorno}]
    /\ pc = "api_chamada"
    /\ rules = RegrasNone
    /\ user_config = SemConfig
    /\ dados_nf = SemNota
    /\ simples_status = SemStatus
    /\ resultado = SemResultado
    /\ chamada_anterior = SemChamada
    /\ LoteParado

\* if not client: return None
VerificarClient ==
    /\ pc = "api_chamada"
    /\ IF api.client
       THEN pc' = "api_laco" /\ api' = api
       ELSE pc' = "api_retornou" /\ api' = [api EXCEPT !.retorno = Nulo]
    /\ UNCHANGED vars_fora_da_api

\* A loop body that sleeps and tries again after every exception.
TentarApi_RepeteTudo ==
    /\ pc = "api_laco"
    /\ api.attempt < api.max_retries
    /\ \E desfecho \in DesfechosApi :
          LET feita == [api EXCEPT !.respostas = Append(@, desfecho)]
          IN  IF desfecho = "ok"
              THEN /\ api' = [feita EXCEPT !.retorno = ConteudoDaResposta]
                   /\ pc' = "api_retornou"
              ELSE /\ api' = [feita EXCEPT !.attempt = @ + 1]
                   /\ pc' = "api_laco"
    /\ UNCHANGED vars_fora_da_api

\* One iteration of "for attempt in range(max_retries)": the API call and
\* the return, or one of the three except clauses.
TentarApi ==
    /\ pc = "api_laco"
    /\ api.attempt < api.max_retries
    /\ \E desfecho \in DesfechosApi :
          LET feita == [api EXCEPT !.respostas = Append(@, desfecho)]
          IN  CASE desfecho = "ok" ->
                     /\ api' = [feita EXCEPT !.retorno = ConteudoDaResposta]
                     /\ pc' = "api_retornou"
                [] desfecho \in {"conexao", "limite"} ->
                     /\ api' = [feita EXCEPT !.attempt = @ + 1]
                     /\ pc' = "api_laco"
                [] desfecho \in {"sem_conteudo", "outro"} ->
                     /\ api' = feita
                     /\ pc' = "api_apos_laco"
    /\ UNCHANGED vars_fora_da_api

\* range(max_retries) is exhausted.
EsgotarTentativas ==
    /\ pc = "api_laco"
    /\ api.attempt >= api.max_retries
    /\ pc' = "api_apos_laco"
    /\ api' = api
    /\ UNCHANGED vars_fora_da_api

\* return None, after the loop
RetornarNone ==
    /\ pc = "api_apos_laco"
    /\ api' = [api EXCEPT !.retorno = Nulo]
    /\ pc' = "api_retornou"
    /\ UNCHANGED vars_fora_da_api

NextApi == VerificarClient \/ TentarApi \/ EsgotarTentativas \/ RetornarNone

SpecApi == InitApi /\ [][NextApi]_vars

----------------------------------------------------------------------------
(* Vocabulary of the properties *)

Elementos(seq) == {seq[i] : i \in DOMAIN seq}

\* Upper/lower-case pairs of the alphabet of the model.
ParesCaixa ==
    {<<"s", "S">>, <<"p", "P">>, <<"r", "R">>, <<"j", "J">>, <<"i", "I">>,
     <<"m", "M">>, <<"n", "N">>, <<"a", "A">>, <<"o", "O">>}

MesmaLetra(a, b) == a = b \/ <<a, b>> \in ParesCaixa \/ <<b, a>> \in ParesCaixa

\* Case-insensitive, exact comparison of two texts.
IgualSemCaixa(x, y) ==
    /\ Len(x) = Len(y)
    /\ \A i \in 1..Len(x) : MesmaLetra(x[i], y[i])

\* The engine has answered for the invoice held in dados_nf.
Processada == pc = "processada"

\* The engine returned a MapaRecord (the invoice is eligible).
EhMapa == Processada /\ resultado.tipo = "mapa"

Mapa == resultado.mapa

\* Regime flags as the caller gave them.
EhOptante == simples_status.is_optante_simples = Bool(TRUE)
EhSimei == simples_status.is_simei = Bool(TRUE)

\* Resolved service-law code of the invoice held in dados_nf.
CodigoResolvido == EscolherLc116ComConsenso(dados_nf, rules).codigo

CodigoNaExcecao ==
    \E c \in {"7.11", "7.12", "3.01", "10.09"} : CodigoResolvido = Txt(c)

\* The invoice total as the engine reads it.
Total == ValorTotal(dados_nf)

\* Both municipalities are texts.
MunicipiosPresentes ==
    /\ dados_nf.municipio_prestador \notin {Ausente, Nulo}
    /\ dados_nf.municipio_tomador \notin {Ausente, Nulo}

\* The ISS branch reads the municipalities of the invoice.
IssLeMunicipios == ~EhSimei /\ CodigoResolvido # Txt("3.01")

----------------------------------------------------------------------------
(* C1 - triage of non-Simples providers *)

\* C1: an invoice whose provider is not Simples-optante (flag false or
\* absent) and whose resolved service-law code is outside the exception set
\* makes processar_regras_fiscais return None, never a MapaRecord, whatever
\* the other inputs are.
C1_NaoOptanteForaDaExcecaoVaiParaManual ==
    (Processada /\ ~EhOptante /\ ~CodigoNaExcecao) => resultado = RetNone

\* A SIMEI-flagged, fully filled invoice of a non-optante with the default
\* code was sent to manual review.
C1_Witness ==
    /\ Processada /\ ~EhOptante /\ EhSimei
    /\ dados_nf.subitem_lc116 = Ausente
    /\ dados_nf.valor_total = Num(Float(1))
    /\ MunicipiosPresentes
    /\ user_config.possui_cebas = Bool(TRUE)
    /\ resultado = RetNone

----------------------------------------------------------------------------
(* C2 - the otherwise-branch of the gate *)

\* C2 (as stated): whenever the provider is Simples-optante or the resolved
\* code is in the exception set, the engine does not return None and the four
\* retention branches are evaluated, so that a MapaRecord comes out.
C2_Original ==
    (Processada /\ (EhOptante \/ CodigoNaExcecao)) => resultado.tipo = "mapa"

\* The fields the calculation needs are usable: the total is not null and
\* the municipalities read by the ISS branch are texts.
CamposUtilizaveis ==
    /\ dados_nf.valor_total # Nulo
    /\ IssLeMunicipios => MunicipiosPresentes

\* C2 (amended): whenever the provider is Simples-optante or the resolved
\* code is in the exception set, the engine never returns None; it returns a
\* MapaRecord carrying the four retentions exactly when the total is not null
\* and the municipalities read by the ISS branch are texts, and raises an
\* exception after the gate otherwise.
C2_GatePassaParaCalculo ==
    (Processada /\ (EhOptante \/ CodigoNaExcecao)) =>
        /\ resultado.tipo # "None"
        /\ resultado.tipo = "mapa" <=> CamposUtilizaveis
        /\ resultado.tipo = "excecao" <=> ~CamposUtilizaveis

\* A non-optante provider with an exception code got a MapaRecord.
C2_Witness ==
    /\ EhMapa /\ ~EhOptante /\ CodigoResolvido = Txt("7.11")
    /\ Len(Mapa.observacoes_legais) >= 2

----------------------------------------------------------------------------
(* C3 - derived totals *)

\* C3: in every MapaRecord valor_total_retencoes is the sum of the four
\* retained amounts and valor_liquido is the record's own valor_total minus
\* valor_total_retencoes.
C3_Original ==
    EhMapa =>
        /\ Mapa.valor_total_retencoes =
             Mapa.valor_iss_retido + Mapa.valor_inss_retido
               + Mapa.valor_irrf_retido + Mapa.valor_csrf_retido
        /\ Mapa.valor_total \notin {Ausente, Nulo}
        /\ Mapa.valor_liquido = Mapa.valor_total[2] - Mapa.valor_total_retencoes

----------------------------------------------------------------------------
(* C4 - SIMEI providers and ISS *)

\* C4: for every eligible invoice of a SIMEI provider the ISS amount is 0 and
\* the justification trail holds the "ISS not retained (SIMEI provider)" text,
\* whatever the municipalities, the service code and substituto_tributario.
C4_SimeiSemIss ==
    (EhMapa /\ EhSimei) =>
        /\ Mapa.valor_iss_retido = 0
        /\ J_ISS_SIMEI \in Elementos(Mapa.observacoes_legais)

\* A SIMEI invoice that meets every other condition of ISS retention.
C4_Witness ==
    /\ EhMapa /\ EhSimei
    /\ MunicipiosPresentes
    /\ dados_nf.municipio_prestador = dados_nf.municipio_tomador
    /\ user_config.substituto_tributario = Bool(TRUE)
    /\ CodigoResolvido = Txt("1.07")
    /\ Total > 0
    /\ Mapa.valor_iss_retido = 0

----------------------------------------------------------------------------
(* C5 - the ISS amount *)

\* The four conditions of ISS retention.
IssDevido ==
    /\ ~EhSimei
    /\ CodigoResolvido # Txt("3.01")
    /\ MunicipiosPresentes
    /\ IgualSemCaixa(dados_nf.municipio_prestador[2], dados_nf.municipio_tomador[2])
    /\ user_config.substituto_tributario = Bool(TRUE)

\* C5: for every eligible invoice the ISS amount is valor_total x issRate
\* when the provider is not SIMEI, the code is not 3.01, the municipalities
\* are equal ignoring case and the unit is a withholding substitute, and 0 in
\* every other case; when retained, the justification cites same municipality
\* and withholding substitute.
C5_ValorIss ==
    EhMapa =>
        IF IssDevido
        THEN /\ Mapa.valor_iss_retido = Mul(Total, Mapa.aliquota_iss)
             /\ J_ISS_RETIDO(Mapa.aliquota_iss) \in Elementos(Mapa.observacoes_legais)
        ELSE Mapa.valor_iss_retido = 0

\* ISS retained on municipalities that differ only in case.
C5_Witness ==
    /\ EhMapa /\ IssDevido
    /\ dados_nf.municipio_prestador # dados_nf.municipio_tomador
    /\ Total = Float(2)
    /\ Mapa.valor_iss_retido = 100

----------------------------------------------------------------------------
(* C6 - INSS of SIMEI providers *)

\* C6: for every eligible invoice of a SIMEI provider the INSS amount is
\* valor_total x 0.20 when possui_cebas is true and 0 when it is false,
\* whatever the annex, the retention flag and the service code.
C6_InssSimei ==
    (EhMapa /\ EhSimei) =>
        Mapa.valor_inss_retido =
            IF user_config.possui_cebas = Bool(TRUE)
            THEN Mul(Total, ALIQUOTA_INSS_SIMEI)
            ELSE 0

\* A SIMEI provider that is also optante with an Annex IV activity subject to
\* retention, and a taker holding CEBAS: 20% is retained.
C6_Witness ==
    /\ EhMapa /\ EhSimei /\ EhOptante
    /\ user_config.possui_cebas = Bool(TRUE)
    /\ Mapa.cnae_anexo = Txt("IV")
    /\ EscolherCnaeComConsenso(rules).retencao = Txt(<<"S", "I", "M">>)
    /\ Total = Float(1)
    /\ Mapa.valor_inss_retido = 200

----------------------------------------------------------------------------
(* C7 - INSS of Simples providers that are not SIMEI *)

\* The activity is in Annex IV and its retention flag is set.
AnexoIvComRetencao ==
    /\ Mapa.cnae_anexo = Txt("IV")
    /\ IgualSemCaixa(EscolherCnaeComConsenso(rules).retencao[2], <<"S", "I", "M">>)

\* C7: for every eligible invoice of a Simples-optante provider that is not
\* SIMEI the INSS amount is valor_total x 0.11 when the resolved activity is
\* in Annex IV with the retention flag set (ignoring case), and otherwise 0
\* with the "outside retention rules" justification; possui_cebas plays no
\* part.
C7_InssOptante ==
    (EhMapa /\ EhOptante /\ ~EhSimei) =>
        IF AnexoIvComRetencao
        THEN Mapa.valor_inss_retido = Mul(Total, ALIQUOTA_INSS_ANEXO_IV)
        ELSE /\ Mapa.valor_inss_retido = 0
             /\ J_INSS_FORA \in Elementos(Mapa.observacoes_legais)

\* 11% retained with a lower-case retention flag and a taker holding CEBAS.
C7_Witness ==
    /\ EhMapa /\ EhOptante /\ ~EhSimei
    /\ AnexoIvComRetencao
    /\ EscolherCnaeComConsenso(rules).retencao = Txt(<<"s", "i", "m">>)
    /\ user_config.possui_cebas = Bool(TRUE)
    /\ Total = Float(2)
    /\ Mapa.valor_inss_retido = 220

----------------------------------------------------------------------------
(* C8 - INSS of providers outside the Simples regime *)

\* C8: for every eligible invoice whose provider is not Simples-optante the
\* INSS amount is 0, for every value of the SIMEI flag, the CEBAS flag and
\* the activity classification.
C8_Original ==
    (EhMapa /\ ~EhOptante) => Mapa.valor_inss_retido = 0

----------------------------------------------------------------------------
(* C9 - IRRF *)

\* C9: for every eligible invoice the IRRF amount is valor_total x 0.015
\* when the resolved service-law code is 10.09 and 0 otherwise; nothing else
\* of the invoice, the regime, the configuration or the other branches
\* enters.
C9_ValorIrrf ==
    EhMapa =>
        Mapa.valor_irrf_retido =
            IF Mapa.cod_servico_lc116 = Txt("10.09")
            THEN Mul(Total, ALIQUOTA_IRRF)
            ELSE 0

\* IRRF retained next to a retained INSS, for a non-optante SIMEI provider.
C9_Witness ==
    /\ EhMapa /\ ~EhOptante /\ EhSimei
    /\ Mapa.cod_servico_lc116 = Txt("10.09")
    /\ Total = Float(2)
    /\ Mapa.valor_irrf_retido = 30
    /\ Mapa.valor_inss_retido > 0

----------------------------------------------------------------------------
(* C10 - CSRF *)

\* C10: every MapaRecord carries a CSRF rate and a CSRF amount, and both
\* are 0 for every eligible input.
C10_CsrfSempreZero ==
    EhMapa =>
        /\ {"aliquota_csrf", "valor_csrf_retido"} \subseteq DOMAIN Mapa
        /\ Mapa.aliquota_csrf = 0
        /\ Mapa.valor_csrf_retido = 0

\* A record with three non-zero retentions and a zero CSRF.
C10_Witness ==
    /\ EhMapa
    /\ Mapa.valor_iss_retido > 0
    /\ Mapa.valor_inss_retido > 0
    /\ Mapa.valor_irrf_retido > 0
    /\ Mapa.valor_csrf_retido = 0

----------------------------------------------------------------------------
(* C11 - one justification per branch *)

\* C11: each of the four retention branches (ISS, INSS, IRRF, CSRF) appends
\* exactly one justification, also when it retains nothing, so that
\* observacoes_legais of every MapaRecord has exactly four entries.
C11_Original == EhMapa => Len(Mapa.observacoes_legais) = 4

----------------------------------------------------------------------------
(* C14 - service-law consensus *)

\* The subitem code of the invoice is a text and a key of the ServiceLawMap.
SubitemNoMapa ==
    /\ dados_nf.subitem_lc116 \notin {Ausente, Nulo}
    /\ dados_nf.subitem_lc116[2] \in DOMAIN rules.lc116

\* C14: the resolved service-law code is the subitem code of the invoice
\* when that code is present and a key of the ServiceLawMap, and the default
\* code 1.07 in every other case (absent, null, not a key of the map).
C14_Original ==
    Processada =>
        CodigoResolvido = IF SubitemNoMapa THEN dados_nf.subitem_lc116 ELSE Txt("1.07")

----------------------------------------------------------------------------
(* C15 - missing required fields *)

\* A field required for the computation is absent or null.
CampoObrigatorioFaltando ==
    \/ dados_nf.valor_total \in {Ausente, Nulo}
    \/ dados_nf.municipio_prestador \in {Ausente, Nulo}
    \/ dados_nf.municipio_tomador \in {Ausente, Nulo}

\* C15: an invoice missing the total value or a municipality (key absent or
\* null) never yields a MapaRecord.
C15_Original ==
    (Processada /\ CampoObrigatorioFaltando) => resultado.tipo # "mapa"

----------------------------------------------------------------------------
(* C18 - the fallback ISS rate in the justification trail *)

\* Every justification text the engine can emit; none of them says that the
\* ISS rate is the process-wide default.
TextosDoMotor ==
    {J_ISS_SIMEI, J_ISS_301, J_ISS_RETIDO(ALIQUOTA_ISS_PADRAO), J_ISS_NAO_SUBSTITUTO,
     J_ISS_OUTRO_MUNICIPIO, J_INSS_SIMEI_CEBAS, J_INSS_SIMEI_SEM_CEBAS,
     J_INSS_ANEXO_IV, J_INSS_FORA, J_INSS_NAO_OPTANTE, J_IRRF_1009}

\* The text records that the default ISS rate was used.
RegistraAliquotaPadrao(j) == j \notin TextosDoMotor

\* C18: whenever the ISS rate of a MapaRecord is the process-wide fallback
\* (the resolver resolved nothing), a justification of that record records
\* that the fallback was used.
C18_Original ==
    (EhMapa /\ Mapa.aliquota_iss = ALIQUOTA_ISS_PADRAO) =>
        \E j \in Elementos(Mapa.observacoes_legais) : RegistraAliquotaPadrao(j)

----------------------------------------------------------------------------
(* C19 - the reported INSS rate *)

\* The INSS rule that retained something, by its justification.
RegraInssAplicada ==
    IF J_INSS_ANEXO_IV \in Elementos(Mapa.observacoes_legais) THEN ALIQUOTA_INSS_ANEXO_IV
    ELSE IF J_INSS_SIMEI_CEBAS \in Elementos(Mapa.observacoes_legais) THEN ALIQUOTA_INSS_SIMEI
    ELSE 0

\* C19: in every MapaRecord aliquota_inss is the rate that was applied:
\* valor_inss_retido = valor_total x aliquota_inss, with 0.11 for the
\* Annex IV rule, 0.20 for the SIMEI/CEBAS rule and 0 when nothing is
\* retained, whatever the service code and the other branches.
C19_Original ==
    EhMapa =>
        /\ Mapa.valor_inss_retido = Mul(Total, Mapa.aliquota_inss)
        /\ Mapa.aliquota_inss = RegraInssAplicada

----------------------------------------------------------------------------
(* C12 - determinism of the engine *)

\* The call just answered has the inputs of the remembered earlier call
\* (the reference tables and the operator configuration never change).
MesmaEntradaDaChamadaAnterior ==
    /\ Processada
    /\ chamada_anterior # SemChamada
    /\ chamada_anterior.dados_nf = dados_nf
    /\ chamada_anterior.simples_status = simples_status

----------------------------------------------------------------------------
(* Vocabulary of the batch properties *)

\* Steps of the loop body for the file at position idx.
EtapasDaNota ==
    {"texto", "dados", "simples", "motor", "completar", "pdf", "mover", "falha"}

\* The run ended before the loop.
Abortado == pc \in {"abortado_sistema", "abortado_assets", "abortado_regras"}

\* The regime classifier answered with an object for the current invoice.
TemRaw == Len(simples_status_raw) = 2 /\ simples_status_raw[1] = "json"

Raw == simples_status_raw[2]

\* The engine has answered for the current invoice.
MotorRespondeu == resultado.tipo # "nenhum"

\* relatorio_final has an entry for the file at position i.
NoRelatorio(i) == \E k \in DOMAIN relatorio_final : relatorio_final[k].arquivo = i

----------------------------------------------------------------------------
(* C13 - unknown regime status *)

\* The answer on the Simples option is neither of the two definite ones.
OptanteDesconhecido ==
    TemRaw /\ Raw.optante_simples \notin {Txt("optante"), Txt("nao_optante")}

\* The answer on SIMEI is neither of the two definite ones.
SimeiDesconhecido ==
    TemRaw /\ Raw.status_simei \notin {Txt("simei"), Txt("nao_simei")}

\* C13: a regime answer that is unknown (nao_identificado, or missing) makes
\* the flag false.  With the Simples option unknown the invoice goes to the
\* failure path with the engine's None unless its code is in the exception
\* set, and a record, if any, is computed as non-optante; with SIMEI unknown
\* no record is computed under a SIMEI rule.
C13_DesconhecidoContaComoFalso ==
    /\ OptanteDesconhecido =>
          /\ simples_status.is_optante_simples = Bool(FALSE)
          /\ (MotorRespondeu /\ ~CodigoNaExcecao) =>
                 resultado.tipo = "None" /\ pc \in {"falha", "laco"}
          /\ resultado.tipo = "mapa" =>
                 /\ resultado.mapa.optante_simples_str = "NÃO"
                 /\ Elementos(resultado.mapa.observacoes_legais)
                        \cap {J_INSS_ANEXO_IV, J_INSS_FORA} = {}
    /\ SimeiDesconhecido =>
          /\ simples_status.is_simei = Bool(FALSE)
          /\ resultado.tipo = "mapa" =>
                 Elementos(resultado.mapa.observacoes_legais)
                     \cap {J_ISS_SIMEI, J_INSS_SIMEI_CEBAS, J_INSS_SIMEI_SEM_CEBAS} = {}

\* An invoice whose Simples answer is nao_identificado was refused by the
\* gate and is on the failure path.
C13_Witness ==
    /\ pc = "falha"
    /\ TemRaw
    /\ Raw.optante_simples = Txt("nao_identificado")
    /\ Raw.status_simei = Ausente
    /\ resultado.tipo = "None"

----------------------------------------------------------------------------
(* C16 - reference files *)

AlgumaRefIndisponivel ==
    /\ ref_estado # <<>>
    /\ \E f \in NomesRef : ref_estado[f] # "ok"

\* C16: when one of the three reference files is missing or unreadable there
\* is never a rules object, the run does not get past the loading of the
\* rules, and no invoice is listed, extracted, classified, moved, rendered
\* or reported.
C16_SemRegrasSemLote ==
    AlgumaRefIndisponivel =>
        /\ rules = RegrasNone
        /\ pc \in {"inicio", "assets", "carregar"} \/ Abortado
        /\ pdf_files = <<>> /\ idx = 0
        /\ dados_nf = SemNota /\ simples_status_raw = SemRaw
        /\ resultado = SemResultado
        /\ local_nota = <<>> /\ mapas_pdf = <<>> /\ relatorio_final = <<>>

\* The files are all in place, one of them cannot be read, and the run was
\* ended after load_all_rules.
C16_Witness ==
    /\ pc = "abortado_regras"
    /\ ref_estado = [cnae |-> "ok", reinf |-> "ilegivel", lc116 |-> "ok"]
    /\ rules = RegrasNone

----------------------------------------------------------------------------
(* C17 - failures are scoped to one invoice *)

\* A step of the loop body stays with the file or hands over to the head of
\* the loop for the next file.
PassoDaNota ==
    pc \in EtapasDaNota =>
        /\ pc' \in EtapasDaNota \cup {"laco"}
        /\ pdf_files' = pdf_files
        /\ idx' = IF pc' = "laco" THEN idx + 1 ELSE idx

\* The head of the loop goes to the finalization exactly when every file
\* was visited, and otherwise visits the file at position idx.
PassoDoLaco ==
    pc = "laco" =>
        /\ pc' = "finalizacao" <=> idx > Len(pdf_files)
        /\ pc' \in {"finalizacao", "laco", "texto"}
        /\ pdf_files' = pdf_files
        /\ idx' = IF pc' = "laco" THEN idx + 1 ELSE idx

\* C17: whatever fails for one invoice (text extraction, field extraction,
\* regime lookup, engine, PDF generation, file move), the failure path hands
\* over to the head of the loop for the next file; the loop never stops
\* inside the body, and it leaves only for the finalization, once every file
\* of the folder was visited.
C17_FalhaNaoInterrompeLote ==
    /\ [][PassoDaNota /\ PassoDoLaco]_vars
    /\ [](pc \in EtapasDaNota \cup {"laco"} => ENABLED NextLote)
    /\ [](pc = "finalizacao" => idx = Len(pdf_files) + 1)

\* The first file failed and went to manual review, the second was
\* processed to the end, and the batch is at its finalization.
C17_Witness ==
    /\ pc = "finalizacao"
    /\ Len(pdf_files) = 2
    /\ local_nota[1] = "manual"
    /\ local_nota[2] = "notas_geradas"
    /\ mapas_pdf[2] = "gerado"

----------------------------------------------------------------------------
(* C20 - manual review in the batch loop *)

\* The engine returned None for the current invoice, or for the invoice the
\* loop has just left.
TriagemManual == pc \in EtapasDaNota \cup {"laco"} /\ resultado.tipo = "None"

NotaDaTriagem == IF pc = "laco" THEN idx - 1 ELSE idx

\* C20 as stated: after a None of the engine no MAPA PDF, no report entry,
\* and the file is in the manual-review folder.
C20_Original ==
    (TriagemManual /\ pc = "laco") =>
        /\ mapas_pdf[NotaDaTriagem] = "nenhum"
        /\ ~NoRelatorio(NotaDaTriagem)
        /\ local_nota[NotaDaTriagem] = "manual"

\* Files the loop is not working on keep their place, their PDF and their
\* report entries.
OutrasNotasIntactas ==
    pc \in EtapasDaNota \cup {"laco"} =>
        \A i \in DOMAIN pdf_files :
            (i # idx \/ pc = "laco") =>
                /\ local_nota'[i] = local_nota[i]
                /\ mapas_pdf'[i] = mapas_pdf[i]
                /\ NoRelatorio(i)' = NoRelatorio(i)

\* C20 amended: a None of the engine leads straight to the failure path; no
\* MAPA PDF and no report entry exist for the invoice; the file is never in
\* the generated-notes folder: it is in the manual-review folder, or still
\* in the source folder when the move to manual review failed; and nothing
\* of this changes once the loop has left the file.
C20_TriagemSemSaida ==
    /\ [](TriagemManual =>
            /\ pc \in {"falha", "laco"}
            /\ mapas_pdf[NotaDaTriagem] = "nenhum"
            /\ ~NoRelatorio(NotaDaTriagem)
            /\ local_nota[NotaDaTriagem] \in
                   IF pc = "laco" THEN {"manual", "origem"} ELSE {"origem"})
    /\ [][OutrasNotasIntactas]_vars

\* The engine refused the invoice and the move to manual review failed.
C20_Witness ==
    /\ TriagemManual
    /\ pc = "laco"
    /\ local_nota[NotaDaTriagem] = "origem"
    /\ mapas_pdf[NotaDaTriagem] = "nenhum"

----------------------------------------------------------------------------
(* C21 - the engine leaves its inputs alone *)

\* C21: a call of processar_regras_fiscais, whatever its outcome, leaves the
\* reference tables, the invoice fields, the regime status and the operator
\* configuration as they were, and a returned record is another object than
\* the invoice fields; the tables and the configuration are the same after
\* any sequence of calls.
C21_EntradasIntactas ==
    /\ [][pc = "pronta" =>
            /\ dados_nf' = dados_nf
            /\ simples_status' = simples_status
            /\ resultado'.tipo = "mapa" => resultado'.mapa # dados_nf']_vars
    /\ [][rules' = rules /\ user_config' = user_config]_vars

\* A record was returned for an invoice without a total, and the invoice
\* fields still lack it.
C21_Witness ==
    /\ EhMapa
    /\ dados_nf.valor_total = Ausente
    /\ Mapa.valor_liquido = 0

----------------------------------------------------------------------------
(* C22 - the preencher_chamado option *)

\* The operator enabled the option.
PreencherChamado ==
    user_config # SemConfig /\ user_config.preencher_chamado = Bool(TRUE)

\* C22: with preencher_chamado enabled an eligible invoice is handled as
\* with the option disabled (numero_chamado is added to its record): the
\* step that completes the record goes on to the generation of the MAPA PDF.
C22_Original ==
    [][(pc = "completar" /\ PreencherChamado /\ dados_nf.nome_fornecedor # Ausente)
          => pc' = "pdf"]_vars

----------------------------------------------------------------------------
(* C23 - attempts of _call_openai_api *)

ApiRetornou == pc = "api_retornou"

\* Number of API attempts made so far in the call.
Tentativas == Len(api.respostas)

\* C23: a call makes at most max_retries attempts and none without a client;
\* every attempt but the last ended in a connection or rate-limit error (so
\* nothing follows a response or another error); the call returns the text
\* of the response when its last attempt got one and None otherwise; and it
\* gives up after a connection or rate-limit error only when no attempt
\* remains.
C23_TentativasLimitadas ==
    pc \in {"api_chamada", "api_laco", "api_apos_laco", "api_retornou"} =>
        /\ Tentativas <= api.max_retries
        /\ ~api.client => Tentativas = 0
        /\ \A i \in 1..(Tentativas - 1) : api.respostas[i] \in {"conexao", "limite"}
        /\ ApiRetornou =>
              /\ api.retorno =
                     IF Tentativas > 0 /\ api.respostas[Tentativas] = "ok"
                     THEN ConteudoDaResposta ELSE Nulo
              /\ (api.client /\ (Tentativas = 0 \/
                     api.respostas[Tentativas] \in {"conexao", "limite"}))
                     => Tentativas = api.max_retries
        /\ ~ApiRetornou => api.retorno = SemRetorno

\* The third and last attempt succeeded after a connection error and a
\* rate-limit error.
C23_Witness ==
    /\ ApiRetornou
    /\ api.max_retries = 3
    /\ api.respostas = <<"conexao", "limite", "ok">>
    /\ api.retorno = ConteudoDaResposta

----------------------------------------------------------------------------
(* C24 - bound on the retentions *)

\* The share of the total that ISS, SIMEI INSS and IRRF add up to at most:
\* 21.5%, in thousandths.
TETO_RETENCOES == ALIQUOTA_INSS_SIMEI + ALIQUOTA_IRRF

\* The 20% INSS rule for SIMEI providers retained something.
InssSimeiRetido ==
    /\ J_INSS_SIMEI_CEBAS \in Elementos(Mapa.observacoes_legais)
    /\ Mapa.valor_inss_retido > 0

----------------------------------------------------------------------------
(* C25 - what a batch leaves behind *)

\* The loop is over.
FimDoLote == pc \in {"finalizacao", "concluido", "erro_fatal"}

\* C25: at the end of a batch, for every file whose name does not hold
\* "mapa", a MAPA PDF exists exactly when the file is in the generated-notes
\* folder with its record in relatorio_final, and a file in the
\* manual-review folder has neither PDF nor record; a file whose name holds
\* "mapa" is not moved and has neither.
C25_Original ==
    FimDoLote =>
        \A i \in DOMAIN pdf_files :
            IF ContemMapa(pdf_files[i])
            THEN /\ local_nota[i] = "origem"
                 /\ mapas_pdf[i] = "nenhum"
                 /\ ~NoRelatorio(i)
            ELSE /\ mapas_pdf[i] = "gerado" <=>
                        (local_nota[i] = "notas_geradas" /\ NoRelatorio(i))
                 /\ local_nota[i] = "manual" =>
                        (mapas_pdf[i] # "gerado" /\ ~NoRelatorio(i))

====
